---- MODULE Spec2Model ----
(***************************************************************************)
(* Model of scripts/show-tempo-ramp.py: a module body of six statements    *)
(* that reads a CSV table (pandas.read_csv), creates a plotly figure, adds *)
(* the raw (time, value) trace, computes numpy.diff of the value column,   *)
(* adds the (time[:-1], speed) trace and shows the figure.                 *)
(*                                                                         *)
(* A file cell is a record [num, n]: num = TRUE is the decimal numeral of  *)
(* n, num = FALSE is a text that is not a number (such as "abc").          *)
(* A Python scalar is a record [t, num, n]: t = "int" is the number n,     *)
(* t = "str" is a str object holding the text of the cell [num, n].        *)
(* Numbers are modelled in the range where the column's arithmetic is      *)
(* exact (no int64 wrap-around, no float rounding).  A file that exists is  *)
(* readable and has a header row; columns other than time and value are   *)
(* not read by the script and are left out.                                *)
(***************************************************************************)
EXTENDS Integers, Sequences, FiniteSets, TLC

VARIABLES input, pc, names, df, fig, speed, steps, exc, exitcode, shown

vars == <<input, pc, names, df, fig, speed, steps, exc, exitcode, shown>>

(* ---------------------------- bounds ----------------------------------- *)
MaxLen == 3
MaxVal == 1

(* ------------------------- input universe ------------------------------ *)
NumCell(k) == [num |-> TRUE, n |-> k]
TextCell == [num |-> FALSE, n |-> 0]
Cells == {NumCell(k) : k \in 0..MaxVal} \cup {TextCell}

SeqsOfLen(S, k) == [1..k -> S]

Headers == SUBSET {"time", "value"}

ColumnsOfLen(h, c, k) == IF c \in h THEN SeqsOfLen(Cells, k) ELSE {<<>>}

\* a file on disk: its header and, per present column, the cells of its rows
File(h, t, v) ==
    [argc |-> 2, exists |-> TRUE, header |-> h, time |-> t, value |-> v]

NumCol(s) == [i \in 1..Len(s) |-> NumCell(s[i])]

\* the table of the documented example, value = [10, 12, 9, 9, 15]
ExampleFile ==
    [argc |-> 2, exists |-> TRUE, header |-> {"time", "value"},
     time |-> NumCol(<<0, 1, 2, 3, 4>>),
     value |-> NumCol(<<10, 12, 9, 9, 15>>)]

\* the same values sampled at non-uniform times
ExampleFileNonUniform ==
    [argc |-> 2, exists |-> TRUE, header |-> {"time", "value"},
     time |-> NumCol(<<0, 1, 5, 6, 20>>),
     value |-> NumCol(<<10, 12, 9, 9, 15>>)]

NoArg == [argc |-> 1, exists |-> FALSE, header |-> {}, time |-> <<>>, value |-> <<>>]
NoFile == [argc |-> 2, exists |-> FALSE, header |-> {}, time |-> <<>>, value |-> <<>>]

SpecialInputs == {NoArg, NoFile, ExampleFile, ExampleFileNonUniform}

\* the command line and the file it names: every file of up to MaxLen rows
IsInput(x) ==
    \/ x \in SpecialInputs
    \/ \E k \in 0..MaxLen : \E h \in Headers :
          \E t \in ColumnsOfLen(h, "time", k) :
             \E v \in ColumnsOfLen(h, "value", k) :
                x = File(h, t, v)

(* --------------------------- pandas ------------------------------------ *)
PyInt(k) == [t |-> "int", num |-> TRUE, n |-> k]
PyStr(c) == [t |-> "str", num |-> c.num, n |-> c.n]

AllNumeric(col) == \A i \in 1..Len(col) : col[i].num

\* column type inference of read_csv: a column whose cells are all numerals
\* is parsed to numbers, any other column is kept as str objects
infer(col) ==
    IF AllNumeric(col)
    THEN [i \in 1..Len(col) |-> PyInt(col[i].n)]
    ELSE [i \in 1..Len(col) |-> PyStr(col[i])]

NoTable == [columns |-> {}, time |-> <<>>, value |-> <<>>]

Column(f, c, cells) == IF c \in f.header THEN infer(cells) ELSE <<>>

\* read_csv with usecols=["time", "value"]: validates the header on load
read_csv_usecols(f) ==
    IF ~f.exists
    THEN [exc |-> "FileNotFoundError", val |-> NoTable]
    ELSE IF f.header # {"time", "value"}
    THEN [exc |-> "ValueError", val |-> NoTable]
    ELSE [exc |-> "None",
          val |-> [columns |-> f.header,
                   time |-> Column(f, "time", f.time),
                   value |-> Column(f, "value", f.value)]]

read_csv(f) ==
    IF ~f.exists
    THEN [exc |-> "FileNotFoundError", val |-> NoTable]
    ELSE [exc |-> "None",
          val |-> [columns |-> f.header,
                   time |-> Column(f, "time", f.time),
                   value |-> Column(f, "value", f.value)]]

\* attribute access df.<c>
HasColumn(d, c) == c \in d.columns

(* ---------------------------- numpy ------------------------------------ *)
IsNumber(x) == x.t = "int"

\* a[1:] - a[:-1] taken the wrong way round
np_diff_reversed(a) ==
    IF Len(a) < 2
    THEN [exc |-> "None", val |-> <<>>]
    ELSE IF \E i \in 1..Len(a) : ~IsNumber(a[i])
    THEN [exc |-> "TypeError", val |-> <<>>]
    ELSE [exc |-> "None",
          val |-> [i \in 1..(Len(a) - 1) |-> PyInt(a[i].n - a[i + 1].n)]]

\* a differencing step that refuses arrays without an interval
np_diff_strict(a) ==
    IF Len(a) < 2
    THEN [exc |-> "ValueError", val |-> <<>>]
    ELSE IF \E i \in 1..Len(a) : ~IsNumber(a[i])
    THEN [exc |-> "TypeError", val |-> <<>>]
    ELSE [exc |-> "None",
          val |-> [i \in 1..(Len(a) - 1) |-> PyInt(a[i + 1].n - a[i].n)]]

\* numpy.diff(a) for a one-dimensional array: a[1:] - a[:-1]; the
\* subtraction of two str objects raises TypeError, and is not evaluated
\* when the two slices are empty
np_diff(a) ==
    IF Len(a) < 2
    THEN [exc |-> "None", val |-> <<>>]
    ELSE IF \E i \in 1..Len(a) : ~IsNumber(a[i])
    THEN [exc |-> "TypeError", val |-> <<>>]
    ELSE [exc |-> "None",
          val |-> [i \in 1..(Len(a) - 1) |-> PyInt(a[i + 1].n - a[i].n)]]

Quot(a, b) == IF b = 0 THEN 0 ELSE IF b > 0 THEN a \div b ELSE (0 - a) \div (0 - b)

\* a true derivative: np.diff(value) / np.diff(time)
speedOfNormalized(d) ==
    LET dv == np_diff(d.value)
        dt == np_diff(d.time)
    IN  IF dv.exc # "None" THEN dv
        ELSE IF dt.exc # "None" THEN dt
        ELSE [exc |-> "None",
              val |-> [i \in 1..Len(dv.val) |->
                          PyInt(Quot(dv.val[i].n, dt.val[i].n))]]

\* the right-hand side of `speed = np.diff(df.value.values)`
speedOf(d) == np_diff(d.value)

\* the slice a[1:]
DropFirst(a) == SubSeq(a, 2, Len(a))

\* the slice a[:-1]
DropLast(a) == SubSeq(a, 1, Len(a) - 1)

(* ---------------------------- plotly ----------------------------------- *)
ScatterSwapped(x, y) == [x |-> y, y |-> x, mode |-> "lines"]

\* go.Scatter(x=..., y=..., mode="lines")
Scatter(x, y) == [x |-> x, y |-> y, mode |-> "lines"]

(* ------------------------- the module body ----------------------------- *)
Init ==
    /\ IsInput(input)
    /\ pc = "load"
    /\ names = {}
    /\ df = NoTable
    /\ fig = <<>>
    /\ speed = <<>>
    /\ steps = <<>>
    /\ exc = "None"
    /\ exitcode = -1
    /\ shown = 0

\* an exception handler that swallows the error
RaiseSwallowed(e) ==
    /\ pc' = "exit"
    /\ exc' = e
    /\ exitcode' = 0

\* an exception nothing catches: the interpreter prints the traceback and
\* exits with status 1; no later statement runs
Raise(e) ==
    /\ pc' = "exit"
    /\ exc' = e
    /\ exitcode' = 1

\* df = pd.read_csv(sys.argv[1])
Load ==
    /\ pc = "load"
    /\ steps' = Append(steps, "load")
    /\ IF input.argc < 2
       THEN Raise("IndexError") /\ UNCHANGED <<df, names>>
       ELSE LET r == read_csv(input)
            IN  IF r.exc # "None"
                THEN Raise(r.exc) /\ UNCHANGED <<df, names>>
                ELSE /\ df' = r.val
                     /\ names' = names \cup {"df"}
                     /\ pc' = "figure"
                     /\ UNCHANGED <<exc, exitcode>>
    /\ UNCHANGED <<input, fig, speed, shown>>

\* a figure step that goes on to the differencing without the first trace
FigureSkipTrace ==
    /\ pc = "figure"
    /\ steps' = Append(steps, "figure")
    /\ fig' = <<>>
    /\ names' = names \cup {"fig"}
    /\ pc' = "diff"
    /\ UNCHANGED <<input, df, speed, exc, exitcode, shown>>

\* fig = go.Figure()
Figure ==
    /\ pc = "figure"
    /\ steps' = Append(steps, "figure")
    /\ fig' = <<>>
    /\ names' = names \cup {"fig"}
    /\ pc' = "trace1"
    /\ UNCHANGED <<input, df, speed, exc, exitcode, shown>>

\* fig.add_trace(go.Scatter(x=df.time, y=df.value, mode="lines"))
Trace1 ==
    /\ pc = "trace1"
    /\ steps' = Append(steps, "trace1")
    /\ IF ~HasColumn(df, "time") \/ ~HasColumn(df, "value")
       THEN Raise("AttributeError") /\ UNCHANGED fig
       ELSE /\ fig' = Append(fig, Scatter(df.time, df.value))
            /\ pc' = "diff"
            /\ UNCHANGED <<exc, exitcode>>
    /\ UNCHANGED <<input, names, df, speed, shown>>

\* a differencing step that works in place on the table's column
DiffInPlace ==
    /\ pc = "diff"
    /\ steps' = Append(steps, "diff")
    /\ IF ~HasColumn(df, "value")
       THEN Raise("AttributeError") /\ UNCHANGED <<speed, names, df>>
       ELSE LET r == speedOf(df)
            IN  IF r.exc # "None"
                THEN Raise(r.exc) /\ UNCHANGED <<speed, names, df>>
                ELSE /\ speed' = r.val
                     /\ df' = [df EXCEPT !.value = r.val, !.time = DropLast(@)]
                     /\ names' = names \cup {"speed"}
                     /\ pc' = "trace2"
                     /\ UNCHANGED <<exc, exitcode>>
    /\ UNCHANGED <<input, fig, shown>>

\* speed = np.diff(df.value.values)
Diff ==
    /\ pc = "diff"
    /\ steps' = Append(steps, "diff")
    /\ IF ~HasColumn(df, "value")
       THEN Raise("AttributeError") /\ UNCHANGED <<speed, names>>
       ELSE LET r == speedOf(df)
            IN  IF r.exc # "None"
                THEN Raise(r.exc) /\ UNCHANGED <<speed, names>>
                ELSE /\ speed' = r.val
                     /\ names' = names \cup {"speed"}
                     /\ pc' = "trace2"
                     /\ UNCHANGED <<exc, exitcode>>
    /\ UNCHANGED <<input, df, fig, shown>>

\* fig.add_trace(go.Scatter(x=df.time.values[:-1], y=speed, mode="lines"))
Trace2 ==
    /\ pc = "trace2"
    /\ steps' = Append(steps, "trace2")
    /\ IF ~HasColumn(df, "time")
       THEN Raise("AttributeError") /\ UNCHANGED fig
       ELSE /\ fig' = Append(fig, Scatter(DropLast(df.time), speed))
            /\ pc' = "show"
            /\ UNCHANGED <<exc, exitcode>>
    /\ UNCHANGED <<input, names, df, speed, shown>>

\* fig.show(), the last statement: the renderer either displays the figure
\* or raises; after it the interpreter exits with status 0
Show ==
    /\ pc = "show"
    /\ steps' = Append(steps, "show")
    /\ \E displayed \in BOOLEAN :
          IF displayed
          THEN /\ shown' = shown + 1
               /\ pc' = "exit"
               /\ exitcode' = 0
               /\ UNCHANGED exc
          ELSE Raise("Exception") /\ UNCHANGED shown
    /\ UNCHANGED <<input, names, df, fig, speed>>

Next == Load \/ Figure \/ Trace1 \/ Diff \/ Trace2 \/ Show

Spec == Init /\ [][Next]_vars

(* ------------------------- shared vocabulary --------------------------- *)
BothColumns == {"time", "value"}

\* the input names a readable file whose header has both columns
ValidHeader == input.argc = 2 /\ input.exists /\ input.header = BothColumns

\* ... and every cell of its value column is a numeral
ValidTable == ValidHeader /\ AllNumeric(input.value)

Last(s) == s[Len(s)]

Ints(s) == [i \in 1..Len(s) |-> PyInt(s[i])]

ProgramOrder == <<"load", "figure", "trace1", "diff", "trace2", "show">>

IsPrefix(s, t) == Len(s) =< Len(t) /\ \A i \in 1..Len(s) : s[i] = t[i]

ShowReached == pc = "show" \/ (steps # <<>> /\ Last(steps) = "show")

(* ------------------------------ C1 ------------------------------------- *)
\* C1: for every table with N >= 2 rows and a numeric value column the
\* differencing step yields a sequence of exactly N-1 elements with
\* rate[i] = value[i+1] - value[i]; value = [10, 12, 9, 9, 15] gives
\* [2, -3, 0, 6].
C1_RateIsFirstDifference ==
    (ValidTable /\ Len(input.value) >= 2) =>
        /\ (pc \in {"trace2", "show"} => "speed" \in names)
        /\ (pc = "exit" => ("speed" \in names /\ exc \notin {"TypeError", "AttributeError"}))
        /\ ("speed" \in names =>
              /\ Len(speed) = Len(input.value) - 1
              /\ \A i \in 1..(Len(input.value) - 1) :
                    /\ speed[i].t = "int"
                    /\ speed[i].n = input.value[i + 1].n - input.value[i].n
              /\ (input = ExampleFile => speed = Ints(<<2, -3, 0, 6>>)))

C1_Witness ==
    /\ input = ExampleFile
    /\ "speed" \in names
    /\ Len(speed) = 4

(* ------------------------------ C2 ------------------------------------- *)
\* C2: the x sequence of the second trace is time[0..N-2]: it has the
\* length of the rate sequence and its i-th element is time[i], the time
\* of the starting sample of interval i.
C2_RatePairedWithStartTime ==
    Len(fig) = 2 =>
        /\ Len(fig[2].x) = Len(fig[2].y)
        /\ Len(fig[2].x) = Len(speed)
        /\ Len(fig[2].x) = (IF Len(df.time) = 0 THEN 0 ELSE Len(df.time) - 1)
        /\ \A i \in 1..Len(fig[2].x) : fig[2].x[i] = df.time[i]

C2_Witness ==
    /\ Len(fig) = 2
    /\ Len(df.time) >= 3
    /\ df.time[1] # df.time[2]
    /\ df.time[2] # df.time[3]

(* ------------------------------ C3 ------------------------------------- *)
\* C3: for a table with N < 2 rows the rate sequence is empty, neither the
\* differencing step nor the second trace fails, and the program reaches
\* the display call with a second trace that has no points.
C3_ShortTableStillDisplayed ==
    (ValidHeader /\ Len(input.value) < 2) =>
        /\ ("speed" \in names => speed = <<>>)
        /\ (pc \in {"trace2", "show"} => "speed" \in names)
        /\ (pc = "exit" =>
              /\ Last(steps) = "show"
              /\ exc \in {"None", "Exception"}
              /\ Len(fig) = 2
              /\ fig[2].x = <<>>
              /\ fig[2].y = <<>>)

C3_Witness ==
    /\ ValidHeader
    /\ Len(input.value) = 1
    /\ pc = "exit"
    /\ shown = 1
    /\ Len(fig) = 2

(* ------------------------------ C4 ------------------------------------- *)
\* C4: whenever the display call is reached the figure holds exactly two
\* line traces, first (time, value) over all rows, then (time[:-1], rate);
\* no other trace is ever added.
C4_ExactlyTwoTraces ==
    /\ Len(fig) =< 2
    /\ (Len(fig) >= 1 =>
          fig[1] = [x |-> df.time, y |-> df.value, mode |-> "lines"])
    /\ (ShowReached =>
          /\ Len(fig) = 2
          /\ Len(fig[1].x) = Len(input.time)
          /\ fig[2] = [x |-> SubSeq(df.time, 1, Len(df.time) - 1),
                       y |-> speed, mode |-> "lines"])

C4_Witness ==
    /\ pc = "exit"
    /\ shown = 1
    /\ Len(fig) = 2
    /\ Len(df.value) >= 2
    /\ df.time # df.value

C6_NonNumericRejectedOnLoad ==
    (ValidHeader /\ ~AllNumeric(input.value) /\ pc # "load") =>
        /\ pc = "exit"
        /\ exc # "None"
        /\ steps = <<"load">>
        /\ "df" \notin names
        /\ fig = <<>>

(* ------------------------------ C7 ------------------------------------- *)
\* C7: the program ends with exit code 0 exactly when the display
\* invocation succeeded and with a non-zero exit code whenever a step
\* failed; after a failure no later step runs and nothing is displayed.
C7_ExitCodeReflectsOutcome ==
    /\ (pc = "exit" => (exitcode = 0 <=> shown = 1))
    /\ (pc = "exit" => (exitcode = 0 <=> exc = "None"))
    /\ (pc # "exit" => (exitcode = -1 /\ exc = "None" /\ shown = 0))
    /\ (exc # "None" =>
          /\ pc = "exit"
          /\ exitcode # 0
          /\ shown = 0
          /\ ~ENABLED Next)

C7_Witness ==
    /\ pc = "exit"
    /\ exc = "Exception"
    /\ Last(steps) = "show"
    /\ exitcode = 1

(* ------------------------------ C8 ------------------------------------- *)
\* C8 (as stated): the steps run once each in the order load, derive,
\* render: the rate sequence is computed right after the load and before
\* the figure is constructed or a trace is added; the display call happens
\* exactly once, after both traces were added.
C8_DeriveBeforeFigure ==
    /\ IsPrefix(steps, <<"load", "diff", "figure", "trace1", "trace2", "show">>)
    /\ ("fig" \in names => "speed" \in names)
    /\ shown =< 1
    /\ (ShowReached => Len(fig) = 2)

\* C8 (amended): the steps run once each in the order load, figure
\* construction, first trace, derive, second trace, display: the rate
\* sequence is computed after the figure was constructed and the first
\* trace added, and before the second trace; the display call happens
\* exactly once, after both traces were added.
C8_DeriveBetweenTraces ==
    /\ IsPrefix(steps, ProgramOrder)
    /\ (pc # "exit" => (Len(steps) < Len(ProgramOrder) /\ pc = ProgramOrder[Len(steps) + 1]))
    /\ ("speed" \in names => ({"df", "fig"} \subseteq names /\ Len(fig) >= 1))
    /\ (Len(fig) = 2 => "speed" \in names)
    /\ shown =< 1
    /\ (ShowReached => Len(fig) = 2)
    /\ (shown = 1 => steps = ProgramOrder)

C8_Witness ==
    /\ steps = ProgramOrder
    /\ shown = 1
    /\ names = {"df", "fig", "speed"}

(* ------------------------------ C9 ------------------------------------- *)
\* every numeric time column of k rows, and one of texts
AltTimes(k) ==
    {Ints(c) : c \in SeqsOfLen(0..MaxVal, k)}
        \cup {infer([i \in 1..k |-> TextCell])}

\* C9: the rate sequence depends only on the value column: a table with
\* the same values and any other time column (non-uniform spacing
\* included) yields the same rate sequence.
C9_RateIgnoresTime ==
    "speed" \in names =>
        /\ \A t \in AltTimes(Len(df.time)) :
              speedOf([df EXCEPT !.time = t]) = [exc |-> "None", val |-> speed]
        /\ (input = ExampleFileNonUniform => speed = Ints(<<2, -3, 0, 6>>))

C9_Witness ==
    /\ input = ExampleFileNonUniform
    /\ "speed" \in names
    /\ speed # <<>>

(* ------------------------------ C10 ------------------------------------ *)
\* C10: once loaded the table is never modified: every later step leaves
\* the time and value columns and their row order as read from the file.
C10_TableNeverModified ==
    [][("df" \in names) => (df' = df /\ "df" \in names')]_vars

C10_Witness ==
    /\ steps = ProgramOrder
    /\ "df" \in names
    /\ Len(df.value) >= 2
    /\ df.value = infer(input.value)
    /\ df.time = infer(input.time)

====
